---- MODULE Spec2Model ----
(***************************************************************************)
(* Model of the snake game in src/src/main.rs: the main thread's scope,    *)
(* the input thread (handle_input), the simulation thread (game_loop),     *)
(* the zero-capacity command channel between them, the terminal mode held  *)
(* by the render surface, and the player body the simulation thread owns.  *)
(*                                                                         *)
(* Numbers.  The source computes in f64; the model computes exactly on a   *)
(* fixed-point grid chosen so that every quantity of the source is an      *)
(* integer: a logical coordinate c is held as c * Scale, a duration of t   *)
(* seconds as t * TicksPerSec.  With Scale = 3000 and TicksPerSec = 330    *)
(* the frame period 1/30 s is 11, the initial head 0.03 is 90, the initial *)
(* forward 0.11 is 330, the extend quantum 0.01 is 30, forward * dt is dt  *)
(* itself along the axis of motion, and the distance 0.97 from the initial *)
(* head to the far edge of the field is a whole number of ticks (2910), so *)
(* that a frame can carry the head exactly onto the edge.  Every product   *)
(* stays within 32 bits.  Rounding error of f64 (of the order of 1e-17 per *)
(* operation) is not modelled.                                             *)
(***************************************************************************)
EXTENDS Integers, Sequences, FiniteSets, TLC

\* ------------------------------------------------------------- bounds
\* Number of key events the keyboard delivers in a run.
MaxKeys == 3
\* Number of clock ticks (completed frames) the safety specification follows.
MaxFrames == 2

\* ------------------------------------------------------ number scales
Scale == 3000
TicksPerSec == 330

\* -------------------------------------------------------------- Vec2
Vec2(x, y) == [x |-> x, y |-> y]

\* impl ops::Add for Vec2
VAdd(a, b) == Vec2(a.x + b.x, a.y + b.y)

\* impl ops::Mul<f64> for Vec2, with rhs a duration: x * rhs, y * rhs
VMul(v, dt) == Vec2((v.x * dt) \div TicksPerSec, (v.y * dt) \div TicksPerSec)

\* f64::clamp
ClampF(v, lo, hi) == IF v < lo THEN lo ELSE IF v > hi THEN hi ELSE v

\* Vec2::clamp
VClamp(v, min, max) == Vec2(ClampF(v.x, min.x, max.x), ClampF(v.y, min.y, max.y))

\* Vec2::inside_rectange
inside_rectange(v, p1, p2) == v.x >= p1.x /\ v.y >= p1.y /\ v.x <= p2.x /\ v.y <= p2.y

\* Vec2::outside_rectange
outside_rectange(v, p1, p2) == v.x < p1.x /\ v.y < p1.y /\ v.x > p2.x /\ v.y > p2.y

\* The angles the program uses are 90_f64.to_radians() and its negation; an
\* angle is held in degrees.  cos and sin at those angles:
Cos(angle) == 0
Sin(angle) == IF angle = 90 THEN 1 ELSE IF angle = -90 THEN -1 ELSE 0

\* Vec2::rotate
VRotate(v, angle) ==
    Vec2(v.x * Cos(angle) - v.y * Sin(angle), v.x * Sin(angle) + v.y * Cos(angle))

\* ---------------------------------------------------------- Commands
RotatePlayer(angle) == [type |-> "RotatePlayer", angle |-> angle]
Extend == [type |-> "Extend", angle |-> 0]
Shrink == [type |-> "Shrink", angle |-> 0]
Quit == [type |-> "Quit", angle |-> 0]
None == [type |-> "None", angle |-> 0]

\* The key events the keyboard can deliver: the nine keys the program names
\* and three it does not (a lower-case letter, an upper-case 'Q', an arrow).
Keys == {"q", "e", "r", "Right", "d", "l", "Left", "a", "h", "x", "Q", "Up"}
NoKey == "none"

\* from_key with the arms of 'e' and 'r' exchanged.
from_key_swapped(key) ==
    CASE key = "q" -> Quit
      [] key = "e" -> Shrink
      [] key = "r" -> Extend
      [] key \in {"Right", "d", "l"} -> RotatePlayer(90)
      [] key \in {"Left", "a", "h"} -> RotatePlayer(-90)
      [] OTHER -> None

\* Commands::from_key
from_key(key) ==
    CASE key = "q" -> Quit
      [] key = "e" -> Extend
      [] key = "r" -> Shrink
      [] key \in {"Right", "d", "l"} -> RotatePlayer(90)
      [] key \in {"Left", "a", "h"} -> RotatePlayer(-90)
      [] OTHER -> None

\* -------------------------------------------------------------- Clock
Fps == 30
FramePeriod == TicksPerSec \div Fps

\* Time already elapsed since the previous tick when Clock::tick is entered:
\* an idle frame, exactly one period, just over one period, and a stall of
\* 0.97 / 0.11 s, which carries the initial head exactly onto the far edge.
StallTime == ((97 * Scale) \div 100) \div ((11 * Scale) \div (100 * TicksPerSec))
ElapsedTimes == {0, FramePeriod, FramePeriod + 1, StallTime}
\* The stall alone, for the specification that follows the loop without a
\* frame bound.
SlowTimes == {StallTime}

\* A tick that sleeps only the rest of the frame period.
ClockTickSleepsRemainder(elapsed) ==
    IF elapsed <= FramePeriod THEN FramePeriod ELSE elapsed

\* Clock::tick: the value returned for an elapsed time at entry
ClockTick(elapsed) ==
    IF elapsed <= FramePeriod THEN elapsed + FramePeriod ELSE elapsed

\* ------------------------------------------------------------- state
VARIABLES
    mainPc,     \* main: "spawn_game", "spawn_input", "join", "exited"
    gamePc,     \* game_loop: "unspawned", "raw", "alt", "new", "draw0",
                \*   "poll", "update", "draw", "tick", "done", "panicked"
    inputPc,    \* handle_input: "unspawned", "read", "send", "blocked",
                \*   "sent", "done"
    rxAlive,    \* the Receiver exists
    txAlive,    \* the SyncSender exists
    pending,    \* the command of the sender blocked in send(), or None
    command,    \* handle_input's local `command`
    rawMode,    \* the terminal is in raw input mode
    altScreen,  \* the terminal shows the alternate screen
    width,      \* Game.width
    height,     \* Game.height
    len,        \* Snake.len
    head,       \* Snake.head
    forward,    \* Snake.forward
    body,       \* Snake.body, front first
    dt,         \* game_loop's local `dt`
    frames,     \* clock ticks completed (capped at MaxFrames)
    nKeys,      \* key events read
    lastKey,    \* the key event read last
    lastPoll,   \* what the last try_recv yielded: "none" before the first,
                \*   a command's type, "Empty" or "Disconnected"
    produced,   \* commands from_key produced, in order
    applied,    \* commands try_recv delivered, in order
    waitTicks,  \* clock ticks completed while the current send() was waiting
    tickEntry,  \* time elapsed since the reference instant when the last
                \*   Clock::tick was entered
    drawn       \* terminal cells (col, row) the last Game::draw put a glyph
                \*   at, in the order written

vars == <<mainPc, gamePc, inputPc, rxAlive, txAlive, pending, command, rawMode,
          altScreen, width, height, len, head, forward, body, dt, frames, nKeys,
          lastKey, lastPoll, produced, applied, waitTicks, tickEntry, drawn>>

player == <<len, head, forward, body>>

\* Terminal sizes terminal_size() reports.
TermSizes == {<<80, 24>>}

\* Snake::new: head (0.03, 0.03), forward (0.11, 0), no segments.  The values
\* do not depend on anything, so the player holds them from the start though
\* the code builds it in Game::new.
NewSnake ==
    [len |-> 1,
     head |-> Vec2((3 * Scale) \div 100, (3 * Scale) \div 100),
     forward |-> Vec2((11 * Scale) \div 100, 0),
     body |-> <<>>]

\* LinkedList::push_front, LinkedList::pop_back
push_front(s, v) == <<v>> \o s
pop_back(s) == IF s = <<>> THEN s ELSE SubSeq(s, 1, Len(s) - 1)

\* The corners Snake::extend clamps forward to: (-0.01, -0.01), (0.01, 0.01)
ExtendMin == Vec2(-(Scale \div 100), -(Scale \div 100))
ExtendMax == Vec2(Scale \div 100, Scale \div 100)
\* The corners of the field Game::update tests against: (0, 0), (1, 1)
FieldMin == Vec2(0, 0)
FieldMax == Vec2(Scale, Scale)

Init ==
    /\ mainPc = "spawn_game"
    /\ gamePc = "unspawned"
    /\ inputPc = "unspawned"
    /\ rxAlive = TRUE
    /\ txAlive = TRUE
    /\ pending = None
    /\ command = None
    /\ rawMode = FALSE
    /\ altScreen = FALSE
    /\ width = 0
    /\ height = 0
    /\ len = NewSnake.len
    /\ head = NewSnake.head
    /\ forward = NewSnake.forward
    /\ body = NewSnake.body
    /\ dt = 0
    /\ frames = 0
    /\ nKeys = 0
    /\ lastKey = NoKey
    /\ lastPoll = "none"
    /\ produced = <<>>
    /\ applied = <<>>
    /\ waitTicks = 0
    /\ tickEntry = 0
    /\ drawn = <<>>

\* ---------------------------------------------------------------- main
\* main, line 18: scope.spawn(|| game_loop(reciever))
SpawnGame ==
    /\ mainPc = "spawn_game"
    /\ mainPc' = "spawn_input"
    /\ gamePc' = "raw"
    /\ UNCHANGED <<tickEntry, drawn, inputPc, rxAlive, txAlive, pending, command, rawMode, altScreen,
                   width, height, len, head, forward, body, dt, frames, nKeys,
                   lastKey, lastPoll, produced, applied, waitTicks>>

\* main, line 20: scope.spawn(|| handle_input(sender))
SpawnInput ==
    /\ mainPc = "spawn_input"
    /\ mainPc' = "join"
    /\ inputPc' = "read"
    /\ UNCHANGED <<tickEntry, drawn, gamePc, rxAlive, txAlive, pending, command, rawMode, altScreen,
                   width, height, len, head, forward, body, dt, frames, nKeys,
                   lastKey, lastPoll, produced, applied, waitTicks>>

GameEnded == gamePc \in {"done", "panicked"}
InputEnded == inputPc = "done"

\* main, line 21: thread::scope returns once both threads have ended; main
\* then returns (or panics, when a thread panicked) and the process exits.
Join ==
    /\ mainPc = "join"
    /\ GameEnded
    /\ InputEnded
    /\ mainPc' = "exited"
    /\ UNCHANGED <<tickEntry, drawn, gamePc, inputPc, rxAlive, txAlive, pending, command, rawMode,
                   altScreen, width, height, len, head, forward, body, dt, frames,
                   nKeys, lastKey, lastPoll, produced, applied, waitTicks>>

\* ----------------------------------------------------------- game_loop
\* Drop of `stdout` (AlternateScreen<RawTerminal<Stdout>>): back to the main
\* screen, then back to the saved terminal attributes.
DropStdout == rawMode' = FALSE /\ altScreen' = FALSE

\* game_loop returns (break at line 53 or 56): its locals and then its
\* parameter `reciever` are dropped.
LoopBreak ==
    /\ DropStdout
    /\ rxAlive' = FALSE
    /\ gamePc' = "done"

\* A panic that ends the thread without running the drops.
PanicNoUnwind ==
    /\ UNCHANGED <<rawMode, altScreen>>
    /\ rxAlive' = FALSE
    /\ gamePc' = "panicked"

\* An unwrap() fails: the panic unwinds game_loop, dropping what it holds.
Panic ==
    /\ DropStdout
    /\ rxAlive' = FALSE
    /\ gamePc' = "panicked"

\* line 36-38: io::stdout().into_raw_mode().unwrap()
EnterRawMode ==
    /\ gamePc = "raw"
    /\ \/ rawMode' = TRUE /\ altScreen' = altScreen /\ gamePc' = "alt" /\ rxAlive' = rxAlive
       \/ Panic
    /\ UNCHANGED <<tickEntry, drawn, mainPc, inputPc, txAlive, pending, command, width, height, len,
                   head, forward, body, dt, frames, nKeys, lastKey, lastPoll,
                   produced, applied, waitTicks>>

\* line 39-40: .into_alternate_screen().unwrap()
EnterAltScreen ==
    /\ gamePc = "alt"
    /\ \/ altScreen' = TRUE /\ rawMode' = rawMode /\ gamePc' = "new" /\ rxAlive' = rxAlive
       \/ Panic
    /\ UNCHANGED <<tickEntry, drawn, mainPc, inputPc, txAlive, pending, command, width, height, len,
                   head, forward, body, dt, frames, nKeys, lastKey, lastPoll,
                   produced, applied, waitTicks>>

\* line 41-42: Game::new() (terminal_size().unwrap(), Snake::new()), Clock::new()
GameNew ==
    /\ gamePc = "new"
    /\ \/ /\ \E sz \in TermSizes : width' = sz[1] /\ height' = sz[2]
          /\ gamePc' = "draw0"
          /\ UNCHANGED <<rawMode, altScreen, rxAlive>>
       \/ Panic /\ UNCHANGED <<width, height>>
    /\ len' = NewSnake.len
    /\ head' = NewSnake.head
    /\ forward' = NewSnake.forward
    /\ body' = NewSnake.body
    /\ UNCHANGED <<tickEntry, drawn, mainPc, inputPc, txAlive, pending, command, dt, frames, nKeys,
                   lastKey, lastPoll, produced, applied, waitTicks>>

\* `as u16` on an f64 already truncated toward zero: saturating
AsU16(n) == IF n < 0 THEN 0 ELSE IF n > 65535 THEN 65535 ELSE n

\* Truncation toward zero of a / b, b > 0
TruncDiv(a, b) == IF a >= 0 THEN a \div b ELSE -((-a) \div b)

\* Game::term_coord before the final + 1: v.x * width as u16, v.y * height as u16
term_cell(v) ==
    <<AsU16(TruncDiv(v.x * width, Scale)), AsU16(TruncDiv(v.y * height, Scale))>>

\* Game::term_coord: the u16 sums x as u16 + 1, y as u16 + 1 (wrapping, as a
\* build without overflow checks computes them)
term_coord(v) == <<(term_cell(v)[1] + 1) % 65536, (term_cell(v)[2] + 1) % 65536>>

\* Game::draw_snake: a glyph at the head's cell, then one at each segment's
draw_snake == <<term_coord(head)>> \o [i \in 1..Len(body) |-> term_coord(body[i])]

\* Game::draw, called at line 43 (before the loop) and line 59 (each frame):
\* every write and the flush is unwrap()ed.
Draw ==
    /\ gamePc \in {"draw0", "draw"}
    /\ \/ /\ gamePc' = (IF gamePc = "draw0" THEN "poll" ELSE "tick")
          /\ drawn' = draw_snake
          /\ UNCHANGED <<rawMode, altScreen, rxAlive>>
       \/ Panic /\ UNCHANGED drawn
    /\ UNCHANGED <<tickEntry, mainPc, inputPc, txAlive, pending, command, width, height, len,
                   head, forward, body, dt, frames, nKeys, lastKey, lastPoll,
                   produced, applied, waitTicks>>

\* A rotate that turns the head position along with forward.
rotateTurnsHead(angle) ==
    /\ forward' = VRotate(forward, angle)
    /\ head' = VRotate(head, angle)
    /\ UNCHANGED <<len, body>>

\* Snake::rotate
rotate(angle) == forward' = VRotate(forward, angle) /\ UNCHANGED <<len, head, body>>

\* An extend that adds forward unclamped.
extendUnclamped ==
    /\ head' = VAdd(head, forward)
    /\ body' = push_front(body, head)
    /\ UNCHANGED <<len, forward>>

\* Snake::extend
extend ==
    /\ head' = VAdd(head, VClamp(forward, ExtendMin, ExtendMax))
    /\ body' = push_front(body, head)
    /\ UNCHANGED <<len, forward>>

\* A shrink that removes the newest (front) segment.
shrinkPopsFront ==
    /\ body' = (IF body = <<>> THEN body ELSE SubSeq(body, 2, Len(body)))
    /\ UNCHANGED <<len, head, forward>>

\* Snake::shrink
shrink == body' = pop_back(body) /\ UNCHANGED <<len, head, forward>>

\* A move that stores the advanced head, not the vacated one, as the front
\* segment.
moveStoresNewHead(d) ==
    /\ head' = VAdd(head, VMul(forward, d))
    /\ body' = pop_back(push_front(body, head'))
    /\ UNCHANGED <<len, forward>>

\* Snake::move
move(d) ==
    /\ body' = pop_back(push_front(body, head))
    /\ head' = VAdd(head, VMul(forward, d))
    /\ UNCHANGED <<len, forward>>

\* The match with a Quit arm that only falls out of the match, so that the
\* rest of the iteration runs.
DispatchQuitFallsThrough(cmd) ==
    CASE cmd.type = "RotatePlayer" -> rotate(cmd.angle) /\ gamePc' = "update"
                                      /\ UNCHANGED <<rawMode, altScreen, rxAlive>>
      [] cmd.type = "Extend" -> extend /\ gamePc' = "update"
                                /\ UNCHANGED <<rawMode, altScreen, rxAlive>>
      [] cmd.type = "Shrink" -> shrink /\ gamePc' = "update"
                                /\ UNCHANGED <<rawMode, altScreen, rxAlive>>
      [] OTHER -> gamePc' = "update" /\ UNCHANGED player
                  /\ UNCHANGED <<rawMode, altScreen, rxAlive>>

\* line 47-54: the match on the received command
Dispatch(cmd) ==
    CASE cmd.type = "RotatePlayer" -> rotate(cmd.angle) /\ gamePc' = "update"
                                      /\ UNCHANGED <<rawMode, altScreen, rxAlive>>
      [] cmd.type = "Extend" -> extend /\ gamePc' = "update"
                                /\ UNCHANGED <<rawMode, altScreen, rxAlive>>
      [] cmd.type = "Shrink" -> shrink /\ gamePc' = "update"
                                /\ UNCHANGED <<rawMode, altScreen, rxAlive>>
      [] OTHER -> LoopBreak /\ UNCHANGED player

\* line 46: reciever.try_recv() on the zero-capacity channel pairs with a
\* sender blocked in send(), if there is one, and wakes it with Ok.
RecvCommand ==
    /\ gamePc = "poll"
    /\ pending # None
    /\ pending' = None
    /\ inputPc' = "sent"
    /\ applied' = Append(applied, pending)
    /\ lastPoll' = pending.type
    /\ Dispatch(pending)
    /\ waitTicks' = 0
    /\ UNCHANGED <<tickEntry, drawn, mainPc, txAlive, command, width, height, dt, frames, nKeys,
                   lastKey, produced>>

\* A poll that reports Empty although a sender is waiting.
RecvEmptyMissesSender ==
    /\ gamePc = "poll"
    /\ txAlive
    /\ lastPoll' = "Empty"
    /\ gamePc' = "update"
    /\ UNCHANGED <<tickEntry, drawn, mainPc, inputPc, rxAlive, txAlive, pending, command, rawMode,
                   altScreen, width, height, len, head, forward, body, dt, frames,
                   nKeys, lastKey, produced, applied, waitTicks>>

\* Empty handled like Disconnected (Err(_) => break).
RecvEmptyBreaks ==
    /\ gamePc = "poll"
    /\ pending = None
    /\ txAlive
    /\ lastPoll' = "Empty"
    /\ LoopBreak
    /\ UNCHANGED <<tickEntry, drawn, mainPc, inputPc, txAlive, pending, command, width, height, len,
                   head, forward, body, dt, frames, nKeys, lastKey, produced,
                   applied, waitTicks>>

\* line 55: Err(TryRecvError::Empty) => {}
RecvEmpty ==
    /\ gamePc = "poll"
    /\ pending = None
    /\ txAlive
    /\ lastPoll' = "Empty"
    /\ gamePc' = "update"
    /\ UNCHANGED <<tickEntry, drawn, mainPc, inputPc, rxAlive, txAlive, pending, command, rawMode,
                   altScreen, width, height, len, head, forward, body, dt, frames,
                   nKeys, lastKey, produced, applied, waitTicks>>

\* line 56: Err(TryRecvError::Disconnected) => break
RecvDisconnected ==
    /\ gamePc = "poll"
    /\ pending = None
    /\ ~txAlive
    /\ lastPoll' = "Disconnected"
    /\ LoopBreak
    /\ UNCHANGED <<tickEntry, drawn, mainPc, inputPc, txAlive, pending, command, width, height, len,
                   head, forward, body, dt, frames, nKeys, lastKey, produced,
                   applied, waitTicks>>

\* An update whose field test excludes the boundary.
UpdateStrict ==
    /\ gamePc = "update"
    /\ LET c == VAdd(head, VMul(forward, dt))
       IN  IF c.x > FieldMin.x /\ c.y > FieldMin.y /\ c.x < FieldMax.x /\ c.y < FieldMax.y
             THEN move(dt)
             ELSE UNCHANGED player
    /\ gamePc' = "draw"
    /\ UNCHANGED <<tickEntry, drawn, mainPc, inputPc, rxAlive, txAlive, pending, command,
                   rawMode, altScreen, width, height, dt, frames, nKeys, lastKey,
                   lastPoll, produced, applied, waitTicks>>

\* An update that steps by one frame period whatever dt is.
UpdateFixedStep ==
    /\ gamePc = "update"
    /\ IF inside_rectange(VAdd(head, VMul(forward, FramePeriod)), FieldMin, FieldMax)
         THEN move(FramePeriod)
         ELSE UNCHANGED player
    /\ gamePc' = "draw"
    /\ UNCHANGED <<tickEntry, drawn, mainPc, inputPc, rxAlive, txAlive, pending, command,
                   rawMode, altScreen, width, height, dt, frames, nKeys, lastKey,
                   lastPoll, produced, applied, waitTicks>>

\* line 58, Game::update
Update ==
    /\ gamePc = "update"
    /\ IF inside_rectange(VAdd(head, VMul(forward, dt)), FieldMin, FieldMax)
         THEN move(dt)
         ELSE IF outside_rectange(head, FieldMin, FieldMax)
                THEN UNCHANGED player
                ELSE UNCHANGED player
    /\ gamePc' = "draw"
    /\ UNCHANGED <<tickEntry, drawn, mainPc, inputPc, rxAlive, txAlive, pending, command, rawMode,
                   altScreen, width, height, dt, frames, nKeys, lastKey, lastPoll,
                   produced, applied, waitTicks>>

\* line 60: dt = clock.tick(30.), the time elapsed at entry drawn from E
Tick(E) ==
    /\ gamePc = "tick"
    /\ \E elapsed \in E : tickEntry' = elapsed /\ dt' = ClockTick(elapsed)
    /\ frames' = (IF frames < MaxFrames THEN frames + 1 ELSE frames)
    /\ waitTicks' = (IF pending # None THEN waitTicks + 1 ELSE waitTicks)
    /\ gamePc' = "poll"
    /\ UNCHANGED <<drawn, mainPc, inputPc, rxAlive, txAlive, pending, command, rawMode,
                   altScreen, width, height, len, head, forward, body, nKeys,
                   lastKey, lastPoll, produced, applied>>

\* -------------------------------------------------------- handle_input
\* handle_input returns: `sender` is dropped.
InputReturn == inputPc' = "done" /\ txAlive' = FALSE

\* line 26-27: key_reader.next() yields Some(Ok(key)); from_key(key)
ReadKey ==
    /\ inputPc = "read"
    /\ nKeys < MaxKeys
    /\ \E key \in Keys :
         /\ lastKey' = key
         /\ IF from_key(key) = None
              THEN UNCHANGED <<inputPc, command, produced>>
              ELSE /\ command' = from_key(key)
                   /\ produced' = Append(produced, from_key(key))
                   /\ inputPc' = "send"
    /\ nKeys' = nKeys + 1
    /\ UNCHANGED <<tickEntry, drawn, mainPc, gamePc, rxAlive, txAlive, pending, rawMode, altScreen,
                   width, height, len, head, forward, body, dt, frames, lastPoll,
                   applied, waitTicks>>

\* line 26: key_reader.next() yields None (end of input) or Some(Err(_))
ReadEnd ==
    /\ inputPc = "read"
    /\ InputReturn
    /\ UNCHANGED <<tickEntry, drawn, mainPc, gamePc, rxAlive, pending, command, rawMode, altScreen,
                   width, height, len, head, forward, body, dt, frames, nKeys,
                   lastKey, lastPoll, produced, applied, waitTicks>>

\* try_send in place of send: with no receiver waiting it returns Err(Full)
\* and the command is lost.
SendStartTrySend ==
    /\ inputPc = "send"
    /\ pending' = pending
    /\ InputReturn
    /\ waitTicks' = 0
    /\ UNCHANGED <<tickEntry, drawn, mainPc, gamePc, rxAlive, command, rawMode, altScreen, width,
                   height, len, head, forward, body, dt, frames, nKeys, lastKey,
                   lastPoll, produced, applied>>

\* A channel with a buffer (sync_channel(1)): send leaves the command in the
\* channel and returns Ok at once.
SendStartBuffered ==
    /\ inputPc = "send"
    /\ IF rxAlive
         THEN pending' = command /\ inputPc' = "sent" /\ txAlive' = txAlive
         ELSE pending' = pending /\ InputReturn
    /\ waitTicks' = 0
    /\ UNCHANGED <<tickEntry, drawn, mainPc, gamePc, rxAlive, command, rawMode, altScreen, width,
                   height, len, head, forward, body, dt, frames, nKeys, lastKey,
                   lastPoll, produced, applied>>

\* line 28: sender.send(command) is entered.  With the receiver gone it
\* returns Err at once; otherwise the sender waits for a receiver.
SendStart ==
    /\ inputPc = "send"
    /\ IF rxAlive
         THEN pending' = command /\ inputPc' = "blocked" /\ txAlive' = txAlive
         ELSE pending' = pending /\ InputReturn
    /\ waitTicks' = 0
    /\ UNCHANGED <<tickEntry, drawn, mainPc, gamePc, rxAlive, command, rawMode, altScreen, width,
                   height, len, head, forward, body, dt, frames, nKeys, lastKey,
                   lastPoll, produced, applied>>

\* line 28: the receiver is dropped while the sender waits: send returns Err
SendDisconnected ==
    /\ inputPc = "blocked"
    /\ ~rxAlive
    /\ pending' = None
    /\ InputReturn
    /\ UNCHANGED <<tickEntry, drawn, mainPc, gamePc, rxAlive, command, rawMode, altScreen, width,
                   height, len, head, forward, body, dt, frames, nKeys, lastKey,
                   lastPoll, produced, applied, waitTicks>>

\* The loop without the Quit test: after Ok it always reads on.
SendReturnNoQuitTest ==
    /\ inputPc = "sent"
    /\ inputPc' = "read"
    /\ UNCHANGED <<tickEntry, drawn, mainPc, gamePc, rxAlive, txAlive, pending, command, rawMode,
                   altScreen, width, height, len, head, forward, body, dt, frames,
                   nKeys, lastKey, lastPoll, produced, applied, waitTicks>>

\* The loop that breaks after every successful send.
SendReturnAlwaysBreaks ==
    /\ inputPc = "sent"
    /\ InputReturn
    /\ UNCHANGED <<tickEntry, drawn, mainPc, gamePc, rxAlive, pending, command, rawMode, altScreen,
                   width, height, len, head, forward, body, dt, frames, nKeys,
                   lastKey, lastPoll, produced, applied, waitTicks>>

\* line 28-31: send returned Ok: break if the command is Quit
SendReturn ==
    /\ inputPc = "sent"
    /\ IF command = Quit
         THEN InputReturn
         ELSE inputPc' = "read" /\ txAlive' = txAlive
    /\ UNCHANGED <<tickEntry, drawn, mainPc, gamePc, rxAlive, pending, command, rawMode, altScreen,
                   width, height, len, head, forward, body, dt, frames, nKeys,
                   lastKey, lastPoll, produced, applied, waitTicks>>

\* ------------------------------------------------------ specifications
MainStep == SpawnGame \/ SpawnInput \/ Join
GameSetup == EnterRawMode \/ EnterAltScreen \/ GameNew
GamePoll == RecvCommand \/ RecvEmpty \/ RecvDisconnected
InputStep == SendStart \/ SendDisconnected \/ SendReturn

\* The first MaxFrames frames, with every frame time.
Next ==
    \/ SpawnGame
    \/ SpawnInput
    \/ Join
    \/ EnterRawMode
    \/ EnterAltScreen
    \/ GameNew
    \/ Draw
    \/ RecvCommand
    \/ RecvEmpty
    \/ RecvDisconnected
    \/ Update
    \/ (frames < MaxFrames /\ Tick(ElapsedTimes))
    \/ ReadKey
    \/ ReadEnd
    \/ SendStart
    \/ SendDisconnected
    \/ SendReturn

Spec == Init /\ [][Next]_vars

\* The loop followed without a frame bound, every frame a stall.
LiveNext ==
    \/ SpawnGame
    \/ SpawnInput
    \/ Join
    \/ EnterRawMode
    \/ EnterAltScreen
    \/ GameNew
    \/ Draw
    \/ RecvCommand
    \/ RecvEmpty
    \/ RecvDisconnected
    \/ Update
    \/ Tick(SlowTimes)
    \/ ReadKey
    \/ ReadEnd
    \/ SendStart
    \/ SendDisconnected
    \/ SendReturn

\* Scheduling: the three threads are OS threads, each of which runs when it
\* can.  Key events (ReadKey, ReadEnd) come from outside and are not owed.
Fairness ==
    /\ WF_vars(MainStep)
    /\ WF_vars(GameSetup \/ Draw \/ GamePoll \/ Update \/ Tick(SlowTimes))
    /\ WF_vars(InputStep)

LiveSpec == Init /\ [][LiveNext]_vars /\ Fairness

\* ------------------------------------------------------------- claims
IsPrefix(s, t) == Len(s) <= Len(t) /\ SubSeq(t, 1, Len(s)) = s
GameRunning == ~GameEnded
LoopRunning == gamePc \in {"poll", "update", "draw", "tick"}
\* The game thread takes its poll step (leaves the poll point).
PollStep == gamePc = "poll" /\ gamePc' # "poll"
\* The input thread reads a key event.
KeyStep == nKeys' # nKeys
Recognized == {"q", "e", "r", "Right", "d", "l", "Left", "a", "h"}

\* C1: the commands the simulation loop has applied are always an initial
\* part of the commands the input thread produced, in the same order (none
\* duplicated, none reordered); while the loop has not ended, every produced
\* command has been applied except the one whose send is still under way;
\* and a send that returned Ok has had its command applied.
C1_Delivery ==
    /\ IsPrefix(applied, produced)
    /\ GameRunning =>
         Len(produced) - Len(applied) = (IF inputPc \in {"send", "blocked"} THEN 1 ELSE 0)
    /\ inputPc = "sent" => applied = produced

\* Two different commands were produced and both applied, in order, and the
\* input thread is back at its read.
C1_Witness ==
    /\ GameRunning
    /\ inputPc = "read"
    /\ Len(applied) = 2
    /\ applied[1] # applied[2]
    /\ applied = produced

\* C2: once 'q' has been read, unless a terminal operation of the simulation
\* thread fails, the loop receives Quit and ends, the input thread ends,
\* and main exits; no key is read after 'q'; and, terminal failures apart,
\* whenever one thread has ended the process goes on to exit.
QuitRead == lastKey = "q"
IoFailed == gamePc = "panicked"
ProcessExited == mainPc = "exited" /\ gamePc = "done" /\ inputPc = "done"
C2_QuitShutsDown ==
    /\ QuitRead ~> (IoFailed \/ (ProcessExited /\ lastPoll = "Quit"))
    /\ [][QuitRead => nKeys' = nKeys]_vars
    /\ ((GameEnded \/ InputEnded) /\ ~IoFailed) ~> (IoFailed \/ ProcessExited)

\* 'q' was read after another key, Quit was received and the process exited.
C2_Witness ==
    /\ QuitRead
    /\ nKeys = 2
    /\ lastPoll = "Quit"
    /\ ProcessExited

\* C3 as stated: the loop leaves Running only in a poll step that yielded
\* Quit or Disconnected; such a poll step ends the loop, every other poll
\* step keeps it running; a poll step taken after the input thread has
\* ended ends the loop.
C3_Original ==
    /\ [][(LoopRunning /\ ~LoopRunning') =>
            (PollStep /\ lastPoll' \in {"Quit", "Disconnected"})]_vars
    /\ [][PollStep =>
            IF lastPoll' \in {"Quit", "Disconnected"}
              THEN gamePc' = "done"
              ELSE gamePc' = "update"]_vars
    /\ [][(PollStep /\ InputEnded) => gamePc' = "done"]_vars

\* C3 as amended: as C3_Original, except that the loop also leaves Running
\* when the frame's draw fails and the thread panics.
C3_LoopExit ==
    /\ [][(LoopRunning /\ ~LoopRunning') =>
            \/ PollStep /\ lastPoll' \in {"Quit", "Disconnected"} /\ gamePc' = "done"
            \/ gamePc = "draw" /\ gamePc' = "panicked"]_vars
    /\ [][PollStep =>
            IF lastPoll' \in {"Quit", "Disconnected"}
              THEN gamePc' = "done"
              ELSE gamePc' = "update"]_vars
    /\ [][(PollStep /\ InputEnded) => gamePc' = "done"]_vars

\* The loop ran a frame on an Empty poll and then ended on Disconnected.
C3_Witness ==
    /\ gamePc = "done"
    /\ lastPoll = "Disconnected"
    /\ frames >= 1

\* C4: from the step that receives Quit on, the loop is over and head,
\* forward, the segments, dt and the tick count keep their values: nothing
\* of the iteration runs after the poll.
C4_QuitEndsIteration ==
    [][lastPoll' = "Quit" =>
         /\ gamePc' = "done"
         /\ UNCHANGED <<head, forward, body, len, dt, frames>>]_vars

\* Quit was received by a loop that had run a frame and held a segment.
C4_Witness ==
    /\ lastPoll = "Quit"
    /\ gamePc = "done"
    /\ frames >= 1
    /\ Len(body) = 1

\* Parts of C5 that hold as stated: after an Ok send of a command other
\* than Quit, and after an unrecognized key, the thread is back at its read.
C5_GoesOnReading ==
    /\ [][(inputPc = "sent" /\ inputPc' # "sent") =>
            IF command = Quit THEN inputPc' = "done" ELSE inputPc' = "read"]_vars
    /\ [][(KeyStep /\ lastKey' \notin Recognized) => inputPc' = "read"]_vars

\* C5 as stated: the input thread ends only from a send that failed or from
\* an Ok send of Quit.
C5_Original ==
    /\ [][(~InputEnded /\ InputEnded') =>
            \/ inputPc \in {"send", "blocked"} /\ ~rxAlive
            \/ inputPc = "sent" /\ command = Quit]_vars
    /\ C5_GoesOnReading

\* C5 as amended: the input thread ends only from a send that failed, from
\* an Ok send of Quit, or from its read when the key reader yields the end
\* of input or an error.
C5_InputExit ==
    /\ [][(~InputEnded /\ InputEnded') =>
            \/ inputPc \in {"send", "blocked"} /\ ~rxAlive
            \/ inputPc = "sent" /\ command = Quit
            \/ inputPc = "read" /\ nKeys' = nKeys]_vars
    /\ C5_GoesOnReading

\* The input thread ended on a failed send: the loop had panicked with the
\* command unreceived.
C5_Witness ==
    /\ InputEnded
    /\ gamePc = "panicked"
    /\ Len(produced) = Len(applied) + 1
    /\ command # Quit

\* C6: a command is in the channel only while its sender is blocked in
\* send; the input thread is at its read or entering a send only with the
\* channel empty and, while the loop has not ended, with every earlier
\* command received; at most one produced command is unreceived.
C6_OneInFlight ==
    /\ pending # None => (inputPc = "blocked" /\ pending = command)
    /\ inputPc = "send" => Len(produced) = Len(applied) + 1
    /\ (inputPc = "read" /\ GameRunning) => applied = produced
    /\ Len(produced) <= Len(applied) + 1

\* A second command is blocked in send after the first was received.
C6_Witness ==
    /\ pending # None
    /\ Len(applied) = 1
    /\ Len(produced) = 2

\* C7: a poll step taken while a sender waits receives that sender's
\* command, wakes it and, for Extend, has grown the body before update
\* runs; only a poll step adds to the applied commands, and one at a time;
\* a waiting send sees at most one clock tick.
C7_OneFrameLatency ==
    /\ [][(PollStep /\ pending # None) =>
            /\ pending' = None
            /\ inputPc' = "sent"
            /\ applied' = Append(applied, pending)
            /\ gamePc' \in {"update", "done"}
            /\ (pending = Extend => body' = push_front(body, head))
            /\ (pending = Shrink => body' = pop_back(body))
            /\ (pending.type = "RotatePlayer" => forward' = VRotate(forward, pending.angle))]_vars
    /\ [][applied' # applied => (PollStep /\ Len(applied') = Len(applied) + 1)]_vars
    /\ [](waitTicks <= 1)

\* A send has waited through a clock tick and is still waiting.
C7_Witness ==
    /\ pending # None
    /\ waitTicks = 1
    /\ gamePc = "poll"

\* C8: the command of the key read last is the one the table gives; a key
\* outside the table leaves the input thread at its read and changes neither
\* its command, the produced commands, the channel nor the player.
C8_KeyTable ==
    /\ [](/\ lastKey = "q" => command = Quit
          /\ lastKey = "e" => command = Extend
          /\ lastKey = "r" => command = Shrink
          /\ lastKey \in {"Right", "d", "l"} => command = RotatePlayer(90)
          /\ lastKey \in {"Left", "a", "h"} => command = RotatePlayer(-90))
    /\ [][(KeyStep /\ lastKey' \in Recognized) =>
            (inputPc' = "send" /\ produced' = Append(produced, command'))]_vars
    /\ [][(KeyStep /\ lastKey' \notin Recognized) =>
            /\ inputPc' = "read"
            /\ UNCHANGED <<command, produced, pending, applied, head, forward, body, len>>]_vars

\* An unrecognized key was read after a command had been delivered.
C8_Witness ==
    /\ lastKey = "Up"
    /\ nKeys = 2
    /\ inputPc = "read"
    /\ Len(applied) = 1

\* C9 as stated: after a per-frame draw failure the process exits without a
\* further key event: in every state after such a failure the process has
\* exited or a step other than a key read can be taken.
RenderFailed == gamePc = "panicked" /\ lastPoll # "none"
C9_FatalRenderExits ==
    RenderFailed =>
        (mainPc = "exited" \/ ENABLED (MainStep \/ InputStep))

\* C10: when the simulation thread has ended the terminal is in neither raw
\* mode nor the alternate screen, and either is held only between its
\* acquisition and the thread's end.
C10_TerminalRestored ==
    /\ GameEnded => (~rawMode /\ ~altScreen)
    /\ rawMode => gamePc \in {"alt", "new", "draw0", "poll", "update", "draw", "tick"}
    /\ altScreen => (rawMode /\ gamePc \in {"new", "draw0", "poll", "update", "draw", "tick"})
    /\ LoopRunning => (rawMode /\ altScreen)

\* The thread ended on a per-frame draw failure.
C10_Witness ==
    /\ RenderFailed
    /\ ~rawMode
    /\ ~altScreen

\* ----------------------------------------------- claims on the player
\* The game thread takes its update step.
UpdateStep == gamePc = "update" /\ gamePc' # "update"
\* The point update tests: head + forward * dt
Candidate ==
    [x |-> head.x + (forward.x * dt) \div TicksPerSec,
     y |-> head.y + (forward.y * dt) \div TicksPerSec]
\* A point of the unit rectangle, boundary included.
InField(v) == 0 <= v.x /\ v.x <= Scale /\ 0 <= v.y /\ v.y <= Scale
\* 0.01, the extend quantum
Quantum == Scale \div 100
\* The sequence s without its last element
Front(s) == [i \in 1..(Len(s) - 1) |-> s[i]]

\* C11: an update step moves the body exactly when head + forward * dt is in
\* the unit rectangle, boundary included: then the head becomes that point
\* and the vacated head enters the segments; otherwise head, forward, len
\* and the segments are unchanged.  Either way the loop goes on to draw.
C11_BoundaryStop ==
    [][UpdateStep =>
         /\ gamePc' = "draw"
         /\ IF InField(Candidate)
              THEN /\ head' = Candidate
                   /\ Len(body') = Len(body)
                   /\ (body # <<>> => body'[1] = head)
              ELSE UNCHANGED <<head, forward, body, len>>]_vars

\* With no command applied, one frame carried the head exactly onto the far
\* edge (the candidate on the boundary was accepted) and the next update,
\* whose candidate lies beyond the edge, left it there.
C11_Witness ==
    /\ gamePc = "draw"
    /\ frames = 2
    /\ applied = <<>>
    /\ dt = StallTime
    /\ head = [x |-> Scale, y |-> (3 * Scale) \div 100]

\* C12 as stated: the number of segments is len - 1 in every state.
C12_LenTracksSegments == Len(body) = len - 1

\* The poll step that receives Extend.
ExtendStep == PollStep /\ pending = Extend

\* C13: the step that applies Extend grows the segments by one, puts the
\* head held before the step in front of the unchanged earlier segments,
\* leaves forward unchanged and displaces the head, on each axis, by forward
\* limited to [-0.01, 0.01].
C13_Extend ==
    [][ExtendStep =>
         /\ Len(body') = Len(body) + 1
         /\ body'[1] = head
         /\ \A i \in 1..Len(body) : body'[i + 1] = body[i]
         /\ forward' = forward
         /\ LET dx == head'.x - head.x
                dy == head'.y - head.y
            IN  /\ -Quantum <= dx /\ dx <= Quantum
                /\ -Quantum <= dy /\ dy <= Quantum
                /\ dx = (IF forward.x > Quantum THEN Quantum
                         ELSE IF forward.x < -Quantum THEN -Quantum ELSE forward.x)
                /\ dy = (IF forward.y > Quantum THEN Quantum
                         ELSE IF forward.y < -Quantum THEN -Quantum ELSE forward.y)]_vars

\* A second Extend was just applied, after a turn: two different segments,
\* the head one quantum past the front one along the y axis.
C13_Witness ==
    /\ lastPoll = "Extend"
    /\ gamePc = "update"
    /\ Len(body) = 2
    /\ body[1] # body[2]
    /\ forward.x = 0
    /\ head.x = body[1].x
    /\ head.y - body[1].y \in {Quantum, -Quantum}

\* C14: an update step that moves a body with at least one segment keeps the
\* number of segments, advances the head by exactly forward * dt, puts the
\* head held before the step in front, drops the oldest segment, keeps the
\* others in order, and leaves forward unchanged.
C14_Move ==
    [][(UpdateStep /\ InField(Candidate) /\ body # <<>>) =>
         /\ Len(body') = Len(body)
         /\ head'.x - head.x = (forward.x * dt) \div TicksPerSec
         /\ head'.y - head.y = (forward.y * dt) \div TicksPerSec
         /\ body'[1] = head
         /\ \A i \in 1..(Len(body) - 1) : body'[i + 1] = body[i]
         /\ forward' = forward]_vars

\* A body of two segments has just moved by forward * dt, dt > 0.
C14_Witness ==
    /\ gamePc = "draw"
    /\ Len(body) = 2
    /\ body[1] # body[2]
    /\ dt > 0
    /\ head.x - body[1].x = (forward.x * dt) \div TicksPerSec
    /\ head.y - body[1].y = (forward.y * dt) \div TicksPerSec

\* The number of segments after the commands cmds, applied in order to a
\* body without segments: Extend adds one, Shrink removes one if there is one.
RECURSIVE SegCount(_)
SegCount(cmds) ==
    IF cmds = <<>> THEN 0
    ELSE LET n == SegCount(Front(cmds))
             c == cmds[Len(cmds)]
         IN  IF c = Extend THEN n + 1
             ELSE IF c = Shrink /\ n > 0 THEN n - 1
             ELSE n

\* C15: the number of segments is the number of Extends applied less the
\* number of Shrinks applied to a body with segments; Shrink on no segments
\* changes nothing, Shrink otherwise removes exactly the oldest segment;
\* update steps and RotatePlayer keep the number; it changes in no step
\* other than one applying Extend or Shrink.
C15_SegmentCount ==
    /\ [](Len(body) = SegCount(applied))
    /\ [][(PollStep /\ pending = Shrink) =>
            /\ body = <<>> => body' = <<>>
            /\ body # <<>> => body' = Front(body)
            /\ gamePc' = "update"]_vars
    /\ [][UpdateStep => Len(body') = Len(body)]_vars
    /\ [][(PollStep /\ pending.type = "RotatePlayer") => body' = body]_vars
    /\ [][Len(body') # Len(body) => (PollStep /\ pending \in {Extend, Shrink})]_vars

\* Shrink was just applied to a body of two segments: the newer one is left.
C15_Witness ==
    /\ lastPoll = "Shrink"
    /\ gamePc = "update"
    /\ applied = <<Extend, Extend, Shrink>>
    /\ Len(body) = 1

\* C16: the loop's steps run in the order poll, update, draw, tick; dt
\* changes only in a tick step, where it becomes the value Clock::tick
\* returns; an update step advances the head by forward times the dt held
\* since the previous tick, or not at all; before the first tick dt is 0
\* and the update does not displace the head.
C16_TimestepLag ==
    /\ [][(LoopRunning /\ gamePc' # gamePc) =>
            \/ gamePc = "poll" /\ gamePc' \in {"update", "done"}
            \/ gamePc = "update" /\ gamePc' = "draw"
            \/ gamePc = "draw" /\ gamePc' \in {"tick", "panicked"}
            \/ gamePc = "tick" /\ gamePc' = "poll"]_vars
    /\ [][dt' # dt => (gamePc = "tick" /\ gamePc' = "poll")]_vars
    /\ [][(gamePc = "tick" /\ gamePc' = "poll") =>
            (frames' = frames + 1 /\ dt' >= FramePeriod)]_vars
    /\ [][UpdateStep => (head' = head \/ head' = Candidate)]_vars
    /\ [][(UpdateStep /\ frames = 0) => (dt = 0 /\ head' = head)]_vars
    /\ [](frames = 0 => dt = 0)

\* The second iteration's update has moved the head by forward times the
\* value the first tick returned (two frame periods).
C16_Witness ==
    /\ gamePc = "draw"
    /\ frames = 1
    /\ applied = <<>>
    /\ dt = 2 * FramePeriod
    /\ head.x = (3 * Scale) \div 100 + (((11 * Scale) \div 100) * dt) \div TicksPerSec

\* C17: after every tick the value returned is at least one frame period;
\* it is the elapsed time at entry plus one frame period of sleep when that
\* elapsed time was at most one frame period, and the elapsed time at entry
\* itself otherwise.
C17_FrameCeiling ==
    frames > 0 =>
        /\ dt >= FramePeriod
        /\ tickEntry <= FramePeriod => dt = tickEntry + FramePeriod
        /\ tickEntry > FramePeriod => dt = tickEntry

\* Two ticks were taken, the last entered with exactly one frame period
\* elapsed: it slept, and returned two periods.
C17_Witness ==
    /\ frames = 2
    /\ gamePc = "poll"
    /\ tickEntry = FramePeriod
    /\ dt = 2 * FramePeriod

\* C18 as stated: every glyph of the last draw is at a cell (col, row) with
\* 1 <= col <= width and 1 <= row <= height, and the u16 sums that give the
\* cell of the head and of each segment do not overflow.
C18_ValidCells ==
    /\ \A i \in 1..Len(drawn) :
         /\ 1 <= drawn[i][1] /\ drawn[i][1] <= width
         /\ 1 <= drawn[i][2] /\ drawn[i][2] <= height
    /\ gamePc \in {"draw0", "draw"} =>
         /\ term_cell(head)[1] + 1 <= 65535 /\ term_cell(head)[2] + 1 <= 65535
         /\ \A i \in 1..Len(body) :
              term_cell(body[i])[1] + 1 <= 65535 /\ term_cell(body[i])[2] + 1 <= 65535

\* C19 as stated: the head and every segment are in the unit rectangle.
C19_HeadInField ==
    /\ InField(head)
    /\ \A i \in 1..Len(body) : InField(body[i])

\* C20: the step that applies RotatePlayer(angle) turns forward by a quarter
\* turn in the direction of angle and leaves head, the segments and len
\* unchanged; the steps that apply Extend and Shrink leave forward unchanged.
C20_RotateOnlyForward ==
    /\ [][(PollStep /\ pending.type = "RotatePlayer") =>
            /\ UNCHANGED <<head, body, len>>
            /\ forward' = (IF pending.angle = 90
                             THEN [x |-> -forward.y, y |-> forward.x]
                             ELSE [x |-> forward.y, y |-> -forward.x])
            /\ gamePc' = "update"]_vars
    /\ [][(PollStep /\ pending \in {Extend, Shrink}) => forward' = forward]_vars

\* RotatePlayer(+90 degrees) was just applied to a body that holds a segment.
C20_Witness ==
    /\ lastPoll = "RotatePlayer"
    /\ gamePc = "update"
    /\ applied = <<Extend, RotatePlayer(90)>>
    /\ Len(body) = 1
    /\ forward = [x |-> 0, y |-> (11 * Scale) \div 100]

====
